---- MODULE Spec2Model ----
(***************************************************************************)
(* Model of src/server.js: the WebSocket signaling server of the P2P file  *)
(* share.  The state is the insertion-ordered Map `sessions`, the          *)
(* readyState of every WebSocket the server has accepted, and the clock    *)
(* read by Date.now().  Node runs every handler to completion, so each     *)
(* handler (message, close, the cleanup interval) is one atomic action.    *)
(*                                                                         *)
(* Two observation variables record what the last handler did: `last` is   *)
(* the event that was handled (with the sessions it deleted, which the     *)
(* code logs) and `sent` is the list of send() calls the handler made, in  *)
(* order, each with the destination socket and the text produced by        *)
(* JSON.stringify.  A send() on a socket that is not OPEN delivers nothing  *)
(* (the library drops it, or throws into the catch of the message         *)
(* handler, after which the handler has nothing left to do): `sent` lists  *)
(* the calls, readyState tells which were delivered.                       *)
(* Two history variables keep, per pin, who has been answered              *)
(* session-created since the pin was last free (`winners`) and who has     *)
(* been answered session-joined on the pin's session (`joiners`).          *)
(*                                                                         *)
(* Spec handles a message in the step in which it arrives.  SpecOrder      *)
(* separates the two: `inbox` holds, per connection, the messages that     *)
(* have arrived and whose 'message' event has not been handled yet, each   *)
(* numbered in arrival order (`arrived` counts them), and `delivered`      *)
(* lists, per socket, the forwarded messages written to it, in the order   *)
(* of the send() calls.  In Spec these three variables stay as they start. *)
(***************************************************************************)
EXTENDS Integers, Sequences, FiniteSets

VARIABLES sessions, readyState, now, last, sent, winners, joiners,
          inbox, arrived, delivered

vars == <<sessions, readyState, now, last, sent, winners, joiners,
          inbox, arrived, delivered>>

\* the variables of the order of messages on the connections
order == <<inbox, arrived, delivered>>

-----------------------------------------------------------------------------
(* Bounds and constants *)

\* Session max age in ms (the cleanup interval's threshold).
MaxAge == 3600000

\* The clock is sampled at 0 and at MaxAge..MaxAge+Skew, so that a sweep can
\* run before, exactly at and after created + MaxAge.
Skew == 1

TimePoints == {0} \cup (MaxAge..(MaxAge + Skew))

\* The WebSocket objects handed to wss.on('connection'), in accept order.
ConnOrder == <<"ws1", "ws2", "ws3">>

Endpoints == {ConnOrder[i] : i \in 1..Len(ConnOrder)}

Pins == {"1234", "9999"}

\* JavaScript's undefined (a missing property) and null.
Undefined == "undefined"

Null == "null"

-----------------------------------------------------------------------------
(* JSON texts and objects.  A text is either not decodable or an object    *)
(* literal: a sequence of <<key, value>> members in source order, possibly *)
(* with a repeated key.  An object is a sequence of <<key, value>>         *)
(* properties in insertion order with distinct keys.                       *)

Text(members) == [json |-> TRUE, members |-> members]

Garbage == [json |-> FALSE, members |-> <<>>]

\* obj[k], undefined when obj has no property k
RECURSIVE Prop(_, _)
Prop(obj, k) ==
    IF obj = <<>> THEN Undefined
    ELSE IF Head(obj)[1] = k THEN Head(obj)[2] ELSE Prop(Tail(obj), k)

\* obj[k] = v: an existing property keeps its position, a new one goes last
RECURSIVE SetProp(_, _, _)
SetProp(obj, k, v) ==
    IF obj = <<>> THEN << <<k, v>> >>
    ELSE IF Head(obj)[1] = k THEN << <<k, v>> >> \o Tail(obj)
    ELSE <<Head(obj)>> \o SetProp(Tail(obj), k, v)

\* JSON.parse of an object literal: members are assigned left to right
RECURSIVE ParseMembers(_, _)
ParseMembers(members, obj) ==
    IF members = <<>> THEN obj
    ELSE ParseMembers(Tail(members), SetProp(obj, Head(members)[1], Head(members)[2]))

JSONparse(text) == ParseMembers(text.members, <<>>)

\* JSON.stringify of an object: properties whose value is undefined are left out
JSONstringify(obj) == Text(SelectSeq(obj, LAMBDA m : m[2] # Undefined))

-----------------------------------------------------------------------------
(* The Map `sessions`: a sequence of entries in insertion order *)

SessionsHas(pin) == \E i \in 1..Len(sessions) : sessions[i].pin = pin

SessionsIndex(pin) == CHOOSE i \in 1..Len(sessions) : sessions[i].pin = pin

SessionsGet(pin) == sessions[SessionsIndex(pin)]

Send(to, obj) == [to |-> to, text |-> JSONstringify(obj)]

-----------------------------------------------------------------------------
(* Inbound messages the clients send *)

\* Every client shares one file of its own.
FileName(ws) ==
    CASE ws = "ws1" -> "a.txt"
      [] ws = "ws2" -> "b.txt"
      [] OTHER -> "c.txt"

FileSize(ws) ==
    CASE ws = "ws1" -> "10"
      [] ws = "ws2" -> "20"
      [] OTHER -> "30"

CreateText(ws, pin) ==
    Text(<< <<"type", "create-session">>, <<"pin", pin>>,
            <<"fileName", FileName(ws)>>, <<"fileSize", FileSize(ws)>> >>)

JoinText(pin) == Text(<< <<"type", "join-session">>, <<"pin", pin>> >>)

OfferText(pin) == Text(<< <<"type", "offer">>, <<"pin", pin>>, <<"sdp", "o">> >>)

\* an answer whose text repeats the key "sdp"
AnswerText(pin) ==
    Text(<< <<"type", "answer">>, <<"pin", pin>>, <<"sdp", "x">>, <<"sdp", "a">> >>)

IceText(pin) ==
    Text(<< <<"type", "ice-candidate">>, <<"pin", pin>>, <<"candidate", "c">> >>)

PingText == Text(<< <<"type", "ping">> >>)

SignalingTypes == {"offer", "answer", "ice-candidate"}

\* A pin is a secret passed on out of band.  The first client uses both pins
\* and has passed on the first one only; nobody has been given the second.
SharedPins == {"1234"}

KnownPins(ws) == IF ws = "ws1" THEN Pins ELSE SharedPins

SignalingTexts(pin) ==
    IF pin = "1234" THEN {OfferText(pin), AnswerText(pin)} ELSE {IceText(pin)}

\* The third client only receives files: it never creates a session.
Inbound(ws) ==
    (IF ws = "ws3" THEN {} ELSE {CreateText(ws, pin) : pin \in KnownPins(ws)})
        \cup {JoinText(pin) : pin \in SharedPins}
        \cup UNION {SignalingTexts(pin) : pin \in KnownPins(ws)}
        \cup {PingText, Garbage}

InboundTexts == UNION {Inbound(ws) : ws \in Endpoints}

\* JSON.parse(message), tabulated over the texts the clients send
Decoded == [text \in InboundTexts |-> JSONparse(text)]

-----------------------------------------------------------------------------
(* The handlers *)

\* Mutation: the check that the pin is in use is missing, so that sessions.set
\* replaces the entry of the pin.
handleCreateSessionOverwrite(ws, data) ==
    LET pin == Prop(data, "pin")
        fileName == Prop(data, "fileName")
        fileSize == Prop(data, "fileSize")
        entry == [pin |-> pin, sender |-> ws, receiver |-> Null,
                  fileName |-> fileName, fileSize |-> fileSize, created |-> now]
    IN  /\ sessions' = IF SessionsHas(pin)
                       THEN [sessions EXCEPT ![SessionsIndex(pin)] = entry]
                       ELSE Append(sessions, entry)
        /\ sent' = <<Send(ws, << <<"type", "session-created">>, <<"pin", pin>>,
                                 <<"fileName", fileName>>, <<"fileSize", fileSize>> >>)>>

handleCreateSession(ws, data) ==
    LET pin == Prop(data, "pin")
        fileName == Prop(data, "fileName")
        fileSize == Prop(data, "fileSize")
    IN  IF SessionsHas(pin)
        THEN /\ sent' = <<Send(ws, << <<"type", "pin-taken">> >>)>>
             /\ sessions' = sessions
        ELSE /\ sessions' = Append(sessions,
                    [pin |-> pin, sender |-> ws, receiver |-> Null,
                     fileName |-> fileName, fileSize |-> fileSize, created |-> now])
             /\ sent' = <<Send(ws, << <<"type", "session-created">>, <<"pin", pin>>,
                                      <<"fileName", fileName>>, <<"fileSize", fileSize>> >>)>>

\* What handleJoinSession does once the session is found and has no receiver,
\* with the metadata the two messages carry as parameters.
JoinReplies(ws, session, fileName, fileSize) ==
    (IF readyState[session.sender] = "OPEN"
     THEN <<Send(session.sender, << <<"type", "receiver-joined">>,
                                    <<"fileName", fileName>>, <<"fileSize", fileSize>> >>)>>
     ELSE <<>>)
    \o <<Send(ws, << <<"type", "session-joined">>,
                     <<"fileName", fileName>>, <<"fileSize", fileSize>> >>)>>

\* Mutation: the check that the session already has a receiver is missing.
handleJoinSessionNoFull(ws, data) ==
    LET pin == Prop(data, "pin")
    IN  IF ~SessionsHas(pin)
        THEN /\ sent' = <<Send(ws, << <<"type", "session-not-found">> >>)>>
             /\ sessions' = sessions
        ELSE LET i == SessionsIndex(pin)
                 session == sessions[i]
             IN  /\ sessions' = [sessions EXCEPT ![i].receiver = ws]
                 /\ sent' = JoinReplies(ws, session, session.fileName, session.fileSize)

\* Mutation: the metadata is read from the join request, not from the session.
handleJoinSessionEcho(ws, data) ==
    LET pin == Prop(data, "pin")
    IN  IF ~SessionsHas(pin)
        THEN /\ sent' = <<Send(ws, << <<"type", "session-not-found">> >>)>>
             /\ sessions' = sessions
        ELSE LET i == SessionsIndex(pin)
                 session == sessions[i]
             IN  IF session.receiver # Null
                 THEN /\ sent' = <<Send(ws, << <<"type", "session-full">> >>)>>
                      /\ sessions' = sessions
                 ELSE /\ sessions' = [sessions EXCEPT ![i].receiver = ws]
                      /\ sent' = JoinReplies(ws, session, Prop(data, "fileName"),
                                              Prop(data, "fileSize"))

\* Mutation: the receiver is assigned before the session is found to be full.
handleJoinSessionBindFirst(ws, data) ==
    LET pin == Prop(data, "pin")
    IN  IF ~SessionsHas(pin)
        THEN /\ sent' = <<Send(ws, << <<"type", "session-not-found">> >>)>>
             /\ sessions' = sessions
        ELSE LET i == SessionsIndex(pin)
                 session == sessions[i]
             IN  /\ sessions' = [sessions EXCEPT ![i].receiver = ws]
                 /\ sent' = IF session.receiver # Null
                            THEN <<Send(ws, << <<"type", "session-full">> >>)>>
                            ELSE JoinReplies(ws, session, session.fileName, session.fileSize)

handleJoinSession(ws, data) ==
    LET pin == Prop(data, "pin")
    IN  IF ~SessionsHas(pin)
        THEN /\ sent' = <<Send(ws, << <<"type", "session-not-found">> >>)>>
             /\ sessions' = sessions
        ELSE LET i == SessionsIndex(pin)
                 session == sessions[i]
             IN  IF session.receiver # Null
                 THEN /\ sent' = <<Send(ws, << <<"type", "session-full">> >>)>>
                      /\ sessions' = sessions
                 ELSE /\ sessions' = [sessions EXCEPT ![i].receiver = ws]
                      /\ sent' = JoinReplies(ws, session, session.fileName,
                                              session.fileSize)

\* Mutation: the branch for a message of the receiver is missing, the target
\* is always the session's receiver.
handleSignalingToReceiver(ws, data) ==
    LET pin == Prop(data, "pin")
    IN  /\ sessions' = sessions
        /\ IF ~SessionsHas(pin)
           THEN sent' = <<Send(ws, << <<"type", "session-not-found">> >>)>>
           ELSE LET targetWs == SessionsGet(pin).receiver
                IN  IF targetWs # Null /\ readyState[targetWs] = "OPEN"
                    THEN sent' = <<Send(targetWs, data)>>
                    ELSE sent' = <<>>

\* Mutation: the target's readyState is not looked at before sending.
handleSignalingUnguarded(ws, data) ==
    LET pin == Prop(data, "pin")
    IN  /\ sessions' = sessions
        /\ IF ~SessionsHas(pin)
           THEN sent' = <<Send(ws, << <<"type", "session-not-found">> >>)>>
           ELSE LET session == SessionsGet(pin)
                    targetWs == IF session.sender = ws THEN session.receiver
                                ELSE IF session.receiver = ws THEN session.sender
                                ELSE Null
                IN  IF targetWs # Null
                    THEN sent' = <<Send(targetWs, data)>>
                    ELSE sent' = <<>>

\* Mutation: a signaling message for a pin without a session is dropped
\* without an answer.
handleSignalingSilent(ws, data) ==
    LET pin == Prop(data, "pin")
    IN  /\ sessions' = sessions
        /\ IF ~SessionsHas(pin)
           THEN sent' = <<>>
           ELSE LET session == SessionsGet(pin)
                    targetWs == IF session.sender = ws THEN session.receiver
                                ELSE IF session.receiver = ws THEN session.sender
                                ELSE Null
                IN  IF targetWs # Null /\ readyState[targetWs] = "OPEN"
                    THEN sent' = <<Send(targetWs, data)>>
                    ELSE sent' = <<>>

\* Mutation: a message for a session without a usable peer is reported
\* back to its sender.
handleSignalingReport(ws, data) ==
    LET pin == Prop(data, "pin")
    IN  /\ sessions' = sessions
        /\ IF ~SessionsHas(pin)
           THEN sent' = <<Send(ws, << <<"type", "session-not-found">> >>)>>
           ELSE LET session == SessionsGet(pin)
                    targetWs == IF session.sender = ws THEN session.receiver
                                ELSE IF session.receiver = ws THEN session.sender
                                ELSE Null
                IN  IF targetWs # Null /\ readyState[targetWs] = "OPEN"
                    THEN sent' = <<Send(targetWs, data)>>
                    ELSE sent' = <<Send(ws, << <<"type", "peer-unavailable">> >>)>>

\* Mutation: whoever is not the sender of the session is taken for its
\* receiver, so the message of an outsider goes to the sender.
handleSignalingAnyone(ws, data) ==
    LET pin == Prop(data, "pin")
    IN  /\ sessions' = sessions
        /\ IF ~SessionsHas(pin)
           THEN sent' = <<Send(ws, << <<"type", "session-not-found">> >>)>>
           ELSE LET session == SessionsGet(pin)
                    targetWs == IF session.sender = ws THEN session.receiver
                                ELSE session.sender
                IN  IF targetWs # Null /\ readyState[targetWs] = "OPEN"
                    THEN sent' = <<Send(targetWs, data)>>
                    ELSE sent' = <<>>

handleSignalingMessage(ws, data) ==
    LET pin == Prop(data, "pin")
    IN  /\ sessions' = sessions
        /\ IF ~SessionsHas(pin)
           THEN sent' = <<Send(ws, << <<"type", "session-not-found">> >>)>>
           ELSE LET session == SessionsGet(pin)
                    targetWs == IF session.sender = ws THEN session.receiver
                                ELSE IF session.receiver = ws THEN session.sender
                                ELSE Null
                IN  IF targetWs # Null /\ readyState[targetWs] = "OPEN"
                    THEN sent' = <<Send(targetWs, data)>>
                    ELSE sent' = <<>>

\* ws.on('message'): a text that does not decode is caught and logged
\* Mutation: a text that does not decode, or whose type is not known, is
\* answered with an error message.
OnMessageStrict(ws, text) ==
    IF ~text.json
    THEN sessions' = sessions /\ sent' = <<Send(ws, << <<"type", "error">> >>)>>
    ELSE LET data == Decoded[text]
             type == Prop(data, "type")
         IN  CASE type = "create-session" -> handleCreateSession(ws, data)
               [] type = "join-session" -> handleJoinSession(ws, data)
               [] type \in SignalingTypes -> handleSignalingMessage(ws, data)
               [] OTHER -> sessions' = sessions
                           /\ sent' = <<Send(ws, << <<"type", "error">> >>)>>

OnMessage(ws, text) ==
    IF ~text.json
    THEN sessions' = sessions /\ sent' = <<>>
    ELSE LET data == Decoded[text]
             type == Prop(data, "type")
         IN  CASE type = "create-session" -> handleCreateSession(ws, data)
               [] type = "join-session" -> handleJoinSession(ws, data)
               [] type \in SignalingTypes -> handleSignalingMessage(ws, data)
               [] OTHER -> sessions' = sessions /\ sent' = <<>>

\* ws.on('close'): delete the first session, in Map order, that binds ws
RemoveAt(seq, i) == SubSeq(seq, 1, i - 1) \o SubSeq(seq, i + 1, Len(seq))

Binds(session, ws) == session.sender = ws \/ session.receiver = ws

\* Mutation: when the receiver disconnects the session is reopened, not deleted.
OnCloseReopen(ws) ==
    LET hits == {i \in 1..Len(sessions) : Binds(sessions[i], ws)}
        first == CHOOSE i \in hits : \A j \in hits : i <= j
    IN  IF hits = {} THEN sessions' = sessions
        ELSE IF sessions[first].sender = ws
        THEN sessions' = RemoveAt(sessions, first)
        ELSE sessions' = [sessions EXCEPT ![first].receiver = Null]

\* Mutation: the close handler deletes the first session of the registry
\* without testing that it binds the closed socket.
OnCloseFirst(ws) ==
    IF sessions = <<>> THEN sessions' = sessions
    ELSE sessions' = Tail(sessions)

OnClose(ws) ==
    LET hits == {i \in 1..Len(sessions) : Binds(sessions[i], ws)}
    IN  IF hits = {} THEN sessions' = sessions
        ELSE sessions' = RemoveAt(sessions, CHOOSE i \in hits : \A j \in hits : i <= j)

\* the cleanup interval's callback
\* Mutation: a session expires as soon as its age reaches MaxAge.
ExpiredAtMaxAge(session) == now - session.created >= MaxAge

\* Mutation: only a session without receiver expires.
ExpiredIfUnpaired(session) ==
    now - session.created > MaxAge /\ session.receiver = Null

Expired(session) == now - session.created > MaxAge

\* Mutation: the sweep tells the initiator of an expired session, if open.
OnIntervalNotify ==
    LET expired == SelectSeq(sessions, LAMBDA s : Expired(s))
        open == SelectSeq(expired, LAMBDA s : readyState[s.sender] = "OPEN")
    IN  /\ sessions' = SelectSeq(sessions, LAMBDA s : ~Expired(s))
        /\ sent' = [i \in 1..Len(open) |->
                       Send(open[i].sender, << <<"type", "session-expired">>,
                                               <<"pin", open[i].pin>> >>)]

\* the callback deletes and logs; it calls send on no socket
OnInterval ==
    /\ sessions' = SelectSeq(sessions, LAMBDA s : ~Expired(s))
    /\ sent' = <<>>

-----------------------------------------------------------------------------
(* The state machine *)

Event(kind, ws, text, removed) ==
    [kind |-> kind, ws |-> ws, text |-> text, removed |-> removed]

\* the entries of sessions that the step deletes
Removed ==
    SelectSeq(sessions, LAMBDA s : \A j \in 1..Len(sessions') : sessions'[j].pin # s.pin)

TypeOf(text) == Prop(JSONparse(text), "type")

\* History: who was answered session-created / session-joined on each pin
\* since the pin's session came to be; forgotten when the pin is free again.
Forget(history) == [pin \in Pins |-> IF SessionsHas(pin)' THEN history[pin] ELSE {}]

Answered(ws, type) ==
    \E i \in 1..Len(sent') : sent'[i].to = ws /\ TypeOf(sent'[i].text) = type

Record(ws, text) ==
    LET data == Decoded[text]
        type == Prop(data, "type")
        pin == Prop(data, "pin")
    IN  /\ winners' =
              IF type = "create-session" /\ Answered(ws, "session-created")
              THEN [winners EXCEPT ![pin] = @ \cup {ws}]
              ELSE winners
        /\ joiners' =
              IF type = "join-session" /\ Answered(ws, "session-joined")
              THEN [joiners EXCEPT ![pin] = @ \cup {ws}]
              ELSE joiners

Init ==
    /\ sessions = <<>>
    /\ readyState = [ws \in Endpoints |-> "NEW"]
    /\ now = 0
    /\ last = Event("listen", Null, Garbage, <<>>)
    /\ sent = <<>>
    /\ winners = [pin \in Pins |-> {}]
    /\ joiners = [pin \in Pins |-> {}]
    /\ inbox = [ws \in Endpoints |-> <<>>]
    /\ arrived = [ws \in Endpoints |-> 0]
    /\ delivered = [ws \in Endpoints |-> <<>>]

\* wss.on('connection'): the next WebSocket object is accepted, open
Connection(i) ==
    /\ readyState[ConnOrder[i]] = "NEW"
    /\ \A j \in 1..(i - 1) : readyState[ConnOrder[j]] # "NEW"
    /\ readyState' = [readyState EXCEPT ![ConnOrder[i]] = "OPEN"]
    /\ last' = Event("connection", ConnOrder[i], Garbage, <<>>)
    /\ sent' = <<>>
    /\ UNCHANGED <<sessions, now, winners, joiners>>
    /\ UNCHANGED order

\* A message event.  The library emits messages while the socket is OPEN and
\* may still emit buffered ones once the socket is CLOSING, before 'close'.
Message(ws, text) ==
    /\ readyState[ws] \in {"OPEN", "CLOSING"}
    /\ OnMessage(ws, text)
    /\ last' = Event("message", ws, text, <<>>)
    /\ Record(ws, text)
    /\ UNCHANGED <<readyState, now>>
    /\ UNCHANGED order

\* The socket stops being open; the 'close' event has not been emitted yet.
Closing(ws) ==
    /\ readyState[ws] = "OPEN"
    /\ readyState' = [readyState EXCEPT ![ws] = "CLOSING"]
    /\ last' = Event("closing", ws, Garbage, <<>>)
    /\ sent' = <<>>
    /\ UNCHANGED <<sessions, now, winners, joiners>>
    /\ UNCHANGED order

\* The 'close' event: readyState is CLOSED when the handler runs.
Close(ws) ==
    /\ readyState[ws] \in {"OPEN", "CLOSING"}
    /\ readyState' = [readyState EXCEPT ![ws] = "CLOSED"]
    /\ OnClose(ws)
    /\ last' = Event("close", ws, Garbage, Removed)
    /\ sent' = <<>>
    /\ winners' = Forget(winners)
    /\ joiners' = Forget(joiners)
    /\ UNCHANGED now
    /\ UNCHANGED order

\* Time passes between two events.
Advance(t) ==
    /\ t > now
    /\ now' = t
    /\ last' = Event("advance", Null, Garbage, <<>>)
    /\ sent' = <<>>
    /\ UNCHANGED <<sessions, readyState, winners, joiners>>
    /\ UNCHANGED order

\* The cleanup interval fires.
Sweep ==
    /\ OnInterval
    /\ last' = Event("sweep", Null, Garbage, Removed)
    /\ winners' = Forget(winners)
    /\ joiners' = Forget(joiners)
    /\ UNCHANGED <<readyState, now>>
    /\ UNCHANGED order

Next ==
    \/ \E i \in 1..Len(ConnOrder) : Connection(i)
    \/ \E ws \in Endpoints : \E text \in Inbound(ws) : Message(ws, text)
    \/ \E ws \in Endpoints : Closing(ws)
    \/ \E ws \in Endpoints : Close(ws)
    \/ \E t \in TimePoints : Advance(t)
    \/ Sweep

Spec == Init /\ [][Next]_vars

\* The clock does not stop, and setInterval calls the sweep again and again
\* for as long as the process runs.
FairSpec ==
    /\ Spec
    /\ WF_vars(\E t \in TimePoints : Advance(t))
    /\ WF_vars(Sweep)

-----------------------------------------------------------------------------
(* The state machine with the messages of a connection queued in arrival   *)
(* order between their arrival and their 'message' event                   *)

\* How many messages arrive in a run, over all connections.
MaxArrivals == 4

\* The messages that arrive: the session of one pin, its two endpoints and
\* an outsider.
OrderInbound(ws) ==
    CASE ws = "ws1" -> {CreateText(ws, "1234"), OfferText("1234")}
      [] ws = "ws2" -> {JoinText("1234"), AnswerText("1234")}
      [] OTHER -> {OfferText("1234")}

Arrivals == arrived["ws1"] + arrived["ws2"] + arrived["ws3"]

\* A message arrives on an open connection, behind the ones already there.
Arrival(ws, text) ==
    /\ readyState[ws] = "OPEN"
    /\ Arrivals < MaxArrivals
    /\ arrived' = [arrived EXCEPT ![ws] = @ + 1]
    /\ inbox' = [inbox EXCEPT ![ws] = Append(@, [text |-> text, n |-> arrived[ws] + 1])]
    /\ UNCHANGED <<sessions, readyState, now, last, sent, winners, joiners, delivered>>

\* Mutation: the message that arrived last is handled first.
EmittedNewest(queue) == Len(queue)

\* The queued message whose 'message' event is emitted next: the oldest.
\* The handler is synchronous, so it has returned before the next event.
Emitted(queue) == 1

\* send() writes to the socket in call order: the forwarded message, if the
\* handler forwarded one, goes behind those the target already got.
Forwarded(ws, n) ==
    [to \in Endpoints |->
        IF \E i \in 1..Len(sent') :
              sent'[i].to = to /\ TypeOf(sent'[i].text) \in SignalingTypes
        THEN Append(delivered[to], [from |-> ws, n |-> n])
        ELSE delivered[to]]

\* The 'message' event of a queued message: its handler runs.
Emit(ws) ==
    /\ readyState[ws] \in {"OPEN", "CLOSING"}
    /\ inbox[ws] # <<>>
    /\ LET k == Emitted(inbox[ws])
           message == inbox[ws][k]
       IN  /\ OnMessage(ws, message.text)
           /\ last' = Event("message", ws, message.text, <<>>)
           /\ Record(ws, message.text)
           /\ inbox' = [inbox EXCEPT ![ws] = RemoveAt(@, k)]
           /\ delivered' = Forwarded(ws, message.n)
    /\ UNCHANGED <<readyState, now, arrived>>

\* The 'close' event: what was queued on the connection is never emitted.
Disconnect(ws) ==
    /\ readyState[ws] \in {"OPEN", "CLOSING"}
    /\ readyState' = [readyState EXCEPT ![ws] = "CLOSED"]
    /\ OnClose(ws)
    /\ last' = Event("close", ws, Garbage, Removed)
    /\ sent' = <<>>
    /\ winners' = Forget(winners)
    /\ joiners' = Forget(joiners)
    /\ inbox' = [inbox EXCEPT ![ws] = <<>>]
    /\ UNCHANGED <<now, arrived, delivered>>

NextOrder ==
    \/ \E i \in 1..Len(ConnOrder) : Connection(i)
    \/ \E ws \in Endpoints : \E text \in OrderInbound(ws) : Arrival(ws, text)
    \/ \E ws \in Endpoints : Emit(ws)
    \/ \E ws \in Endpoints : Closing(ws)
    \/ \E ws \in Endpoints : Disconnect(ws)
    \/ \E t \in TimePoints : Advance(t)
    \/ Sweep

SpecOrder == Init /\ [][NextOrder]_vars

-----------------------------------------------------------------------------
(* Notions used by the properties *)

\* the step handles a message of one of the given types
Handles(types) ==
    /\ last'.kind = "message"
    /\ last'.text.json
    /\ Prop(Decoded[last'.text], "type") \in types

\* the state is the one right after the handler of the given message of ws
After(ws, text) ==
    /\ last.kind = "message"
    /\ last.ws = ws
    /\ last.text = text

\* the socket, the record and the pin of the message the step handles
ReqWs == last'.ws

ReqData == Decoded[last'.text]

ReqPin == Prop(ReqData, "pin")

Reply(ws, type) == [to |-> ws, text |-> Text(<< <<"type", type>> >>)]

\* the registry after the step
HasAfter(pin) == \E i \in 1..Len(sessions') : sessions'[i].pin = pin

GetAfter(pin) == sessions'[CHOOSE i \in 1..Len(sessions') : sessions'[i].pin = pin]

BoundTo(ws) == {i \in 1..Len(sessions) : Binds(sessions[i], ws)}

-----------------------------------------------------------------------------
(* C1: a create-session request on pin p is answered session-created if    *)
(* and only if no session holds p when it is handled, and pin-taken        *)
(* otherwise; once a create on p has been answered session-created and p   *)
(* has not been removed since, every further create on p, from any         *)
(* connection, is answered pin-taken, so that of two racing creators       *)
(* exactly one wins, and the winner is the session's initiator.            *)

C1_CreateWinsOnce ==
    [][Handles({"create-session"}) =>
          /\ Len(sent') = 1
          /\ sent'[1].to = ReqWs
          /\ TypeOf(sent'[1].text) =
                (IF SessionsHas(ReqPin) THEN "pin-taken" ELSE "session-created")
          /\ winners[ReqPin] # {} => sent'[1] = Reply(ReqWs, "pin-taken")
          /\ HasAfter(ReqPin)
          /\ winners'[ReqPin] = {GetAfter(ReqPin).sender}
          /\ TypeOf(sent'[1].text) = "session-created"
                => GetAfter(ReqPin).sender = ReqWs
      ]_vars

\* two connections raced for the same pin: the second one lost
C1_Witness ==
    /\ After("ws2", CreateText("ws2", "1234"))
    /\ sent = <<Reply("ws2", "pin-taken")>>
    /\ winners["1234"] = {"ws1"}
    /\ SessionsGet("1234").sender = "ws1"
-----------------------------------------------------------------------------
(* C2: a join-session request on a pin that has a session is answered      *)
(* session-joined if the session is open and session-full if it is         *)
(* paired; once a join on the session has been answered session-joined,    *)
(* every further join on it is answered session-full, so that of two       *)
(* racing joiners exactly one wins, and the winner is the responder.        *)

C2_JoinWinsOnce ==
    [][(Handles({"join-session"}) /\ SessionsHas(ReqPin)) =>
          /\ Len(sent') >= 1
          /\ sent'[Len(sent')].to = ReqWs
          /\ TypeOf(sent'[Len(sent')].text) =
                (IF SessionsGet(ReqPin).receiver = Null
                 THEN "session-joined" ELSE "session-full")
          /\ joiners[ReqPin] # {} => sent' = <<Reply(ReqWs, "session-full")>>
          /\ HasAfter(ReqPin)
          /\ joiners'[ReqPin] = {GetAfter(ReqPin).receiver}
          /\ TypeOf(sent'[Len(sent')].text) = "session-joined"
                => GetAfter(ReqPin).receiver = ReqWs
      ]_vars

\* two connections raced to join the same session: the second one lost
C2_Witness ==
    /\ After("ws3", JoinText("1234"))
    /\ sent = <<Reply("ws3", "session-full")>>
    /\ joiners["1234"] = {"ws2"}
    /\ SessionsGet("1234").receiver = "ws2"

-----------------------------------------------------------------------------
(* C3: once the close handler of an endpoint has run (its readyState is    *)
(* CLOSED), no session in the registry has it as initiator or responder.   *)

C3_ClosedEndpointUnbound ==
    \A ws \in Endpoints : readyState[ws] = "CLOSED" => BoundTo(ws) = {}

-----------------------------------------------------------------------------
(* C4: every endpoint is bound, as initiator or responder, to at most one  *)
(* session of the registry.                                                *)

C4_OneSessionPerEndpoint ==
    \A ws \in Endpoints : Cardinality(BoundTo(ws)) <= 1

-----------------------------------------------------------------------------
(* C5: when a join-session succeeds, the initiator is sent receiver-joined *)
(* and the joiner session-joined, both with the fileName and fileSize of   *)
(* the create-session request that created the session.                    *)

\* the record {type, fileName, fileSize} with the metadata the creator supplied
Metadata(type, creator) ==
    << <<"type", type>>, <<"fileName", FileName(creator)>>,
       <<"fileSize", FileSize(creator)>> >>

\* the step handles a join-session on the pin of an open session
JoinSucceeds ==
    /\ Handles({"join-session"})
    /\ SessionsHas(ReqPin)
    /\ SessionsGet(ReqPin).receiver = Null

Carries(msg, to, obj) == msg.to = to /\ JSONparse(msg.text) = obj

\* C5 as stated: the initiator is notified whenever a join succeeds (taken
\* here for a joiner that is open and is not the initiator itself)
C5_JoinNotifiesBoth ==
    [][(/\ JoinSucceeds
        /\ readyState[ReqWs] = "OPEN"
        /\ ReqWs # SessionsGet(ReqPin).sender) =>
          LET creator == SessionsGet(ReqPin).sender
          IN  /\ \E i \in 1..Len(sent') :
                    Carries(sent'[i], creator, Metadata("receiver-joined", creator))
              /\ \E i \in 1..Len(sent') :
                    Carries(sent'[i], ReqWs, Metadata("session-joined", creator))
      ]_vars

\* C5 as amended: the initiator is sent receiver-joined exactly when its
\* channel is open at that moment, and nothing otherwise; the joiner is sent
\* session-joined; both carry the creator's metadata.
C5_JoinNotifiesOpenInitiator ==
    [][JoinSucceeds =>
          LET creator == SessionsGet(ReqPin).sender
          IN  IF readyState[creator] = "OPEN"
              THEN /\ Len(sent') = 2
                   /\ Carries(sent'[1], creator, Metadata("receiver-joined", creator))
                   /\ Carries(sent'[2], ReqWs, Metadata("session-joined", creator))
              ELSE /\ Len(sent') = 1
                   /\ Carries(sent'[1], ReqWs, Metadata("session-joined", creator))
      ]_vars

\* the second client joined the session of the first, both were told a.txt/10
C5_Witness ==
    /\ After("ws2", JoinText("1234"))
    /\ Len(sent) = 2
    /\ Carries(sent[1], "ws1", Metadata("receiver-joined", "ws1"))
    /\ Carries(sent[2], "ws2", Metadata("session-joined", "ws1"))
    /\ Prop(JSONparse(sent[2].text), "fileName") = "a.txt"

-----------------------------------------------------------------------------
(* C6: in a paired session whose two endpoints are open, a signaling       *)
(* message of the initiator is sent to the responder and one of the        *)
(* responder to the initiator, to nobody else, and the record the peer     *)
(* decodes equals the record the server decoded, type and pin included.    *)

C6_ForwardToPeer ==
    [][(Handles(SignalingTypes) /\ SessionsHas(ReqPin)) =>
          LET session == SessionsGet(ReqPin)
          IN  (/\ session.receiver # Null
               /\ readyState[session.sender] = "OPEN"
               /\ readyState[session.receiver] = "OPEN") =>
                  /\ ReqWs = session.sender =>
                        /\ Len(sent') = 1
                        /\ Carries(sent'[1], session.receiver, ReqData)
                  /\ ReqWs = session.receiver =>
                        /\ Len(sent') = 1
                        /\ Carries(sent'[1], session.sender, ReqData)
      ]_vars

\* the responder's answer, whose text repeats a key, reached the initiator:
\* the same record, not the same text
C6_Witness ==
    /\ After("ws2", AnswerText("1234"))
    /\ Len(sent) = 1
    /\ Carries(sent[1], "ws1", JSONparse(AnswerText("1234")))
    /\ sent[1].text # AnswerText("1234")
    /\ SessionsGet("1234").sender = "ws1"
    /\ SessionsGet("1234").receiver = "ws2"

-----------------------------------------------------------------------------
(* C7: a sweep at time t removes a session created at T when t >= T + M    *)
(* and keeps it when t < T + M.                                            *)

SweepStep == last'.kind = "sweep"

Kept(session) == \E j \in 1..Len(sessions') : sessions'[j] = session

Gone(session) == \A j \in 1..Len(sessions') : sessions'[j].pin # session.pin

\* C7 as stated, the boundary t = T + M included in the removals
C7_SweepFromMaxAge ==
    [][SweepStep =>
          \A i \in 1..Len(sessions) :
             IF now >= sessions[i].created + MaxAge
             THEN Gone(sessions[i]) ELSE Kept(sessions[i])
      ]_vars

\* C7 as amended: removed when t > T + M, kept when t <= T + M
C7_SweepPastMaxAge ==
    [][SweepStep =>
          \A i \in 1..Len(sessions) :
             IF now > sessions[i].created + MaxAge
             THEN Gone(sessions[i]) ELSE Kept(sessions[i])
      ]_vars

\* a sweep ran exactly MaxAge after a session was created, and the session is there
C7_Witness ==
    /\ last.kind = "sweep"
    /\ \E i \in 1..Len(sessions) : now = sessions[i].created + MaxAge

-----------------------------------------------------------------------------
(* C8: after pairing, an offer of the initiator for its pin gets no        *)
(* response while the responder's channel is closed.                       *)

\* the initiator offers on the pin of its paired session, whose responder
\* is not open; the session is still in the registry
OfferToClosedResponder ==
    /\ Handles({"offer"})
    /\ SessionsHas(ReqPin)
    /\ SessionsGet(ReqPin).sender = ReqWs
    /\ SessionsGet(ReqPin).receiver # Null
    /\ readyState[SessionsGet(ReqPin).receiver] # "OPEN"

\* the close handler of the responder has just deleted the paired session of
\* the initiator, and the initiator offers on its pin
OfferAfterResponderClose ==
    /\ last.kind = "close"
    /\ Handles({"offer"})
    /\ \E k \in 1..Len(last.removed) :
          /\ last.removed[k].pin = ReqPin
          /\ last.removed[k].sender = ReqWs
          /\ last.removed[k].receiver = last.ws

\* C8 as stated: no response before and after the responder's close handler
C8_SilentWhenResponderClosed ==
    [][(OfferToClosedResponder \/ OfferAfterResponderClose)
          => \A i \in 1..Len(sent') : sent'[i].to # ReqWs
      ]_vars

\* C8 as amended: the offer is dropped, nothing is sent, as long as the session
\* is in the registry; once the responder's close handler has deleted the
\* session, the initiator is answered session-not-found
C8_SilentUntilSessionRemoved ==
    [][/\ OfferToClosedResponder => (sent' = <<>> /\ sessions' = sessions)
       /\ OfferAfterResponderClose => sent' = <<Reply(ReqWs, "session-not-found")>>
      ]_vars

\* the responder's socket is closing, its close handler has not run, and the
\* initiator's offer was dropped
C8_Witness ==
    /\ After("ws1", OfferText("1234"))
    /\ sent = <<>>
    /\ SessionsHas("1234")
    /\ SessionsGet("1234").sender = "ws1"
    /\ SessionsGet("1234").receiver = "ws2"
    /\ readyState["ws2"] = "CLOSING"

-----------------------------------------------------------------------------
(* C9: a request answered with an error reply (pin-taken,                  *)
(* session-not-found, session-full) leaves the registry as it was, and     *)
(* the error reply to the requester is the only message sent.              *)

ErrorTypes == {"pin-taken", "session-not-found", "session-full"}

C9_ErrorsChangeNothing ==
    [][(/\ last'.kind = "message"
        /\ \E i \in 1..Len(sent') :
              sent'[i].to = last'.ws /\ TypeOf(sent'[i].text) \in ErrorTypes)
          => (sessions' = sessions /\ Len(sent') = 1)
      ]_vars

\* the initiator tried to join its own paired session and was told it is full
C9_Witness ==
    /\ After("ws1", JoinText("1234"))
    /\ sent = <<Reply("ws1", "session-full")>>
    /\ SessionsGet("1234").sender = "ws1"
    /\ SessionsGet("1234").receiver = "ws2"

-----------------------------------------------------------------------------
(* C10: as long as a paired session stays in the registry its responder    *)
(* is the same endpoint: no step replaces or clears it.                    *)

C10_ResponderStays ==
    [][\A pin \in Pins :
          (/\ SessionsHas(pin)
           /\ SessionsGet(pin).receiver # Null
           /\ SessionsHas(pin)')
             => SessionsGet(pin)'.receiver = SessionsGet(pin).receiver
      ]_vars

\* the responder of a paired session asked to create a session on its pin,
\* and the session is as it was
C10_Witness ==
    /\ After("ws2", CreateText("ws2", "1234"))
    /\ sent = <<Reply("ws2", "pin-taken")>>
    /\ SessionsGet("1234").sender = "ws1"
    /\ SessionsGet("1234").receiver = "ws2"
    /\ joiners["1234"] = {"ws2"}

-----------------------------------------------------------------------------
(* C11: every message the server sends, a reply to the requester as well   *)
(* as receiver-joined and a forwarded signaling message, goes to an        *)
(* endpoint whose readyState is OPEN when send is called.                  *)

\* sent lists the send calls of the handler that ran last, and no handler
\* changes readyState, so readyState is the one at the moment of sending
C11_SendsOnlyToOpen ==
    \A i \in 1..Len(sent) : readyState[sent[i].to] = "OPEN"

-----------------------------------------------------------------------------
(* C12: a signaling message whose pin has no session in the registry is    *)
(* answered with exactly one message, session-not-found to its sender;     *)
(* nothing goes to any other endpoint and the registry is unchanged.       *)

C12_NoSessionNotFound ==
    [][(Handles(SignalingTypes) /\ ~SessionsHas(ReqPin))
          => /\ sent' = <<Reply(ReqWs, "session-not-found")>>
             /\ sessions' = sessions
      ]_vars

\* past the maximum age no session holds the pin; the offer ws2 sends is
\* answered session-not-found, and the open ws1 gets nothing
C12_Witness ==
    /\ After("ws2", OfferText("1234"))
    /\ sent = <<Reply("ws2", "session-not-found")>>
    /\ ~SessionsHas("1234")
    /\ now > MaxAge
    /\ readyState["ws1"] = "OPEN"
    /\ readyState["ws2"] = "OPEN"

-----------------------------------------------------------------------------
(* C13: a run of the expiry sweep calls send on no socket and changes      *)
(* nothing but the registry, from which it deletes the expired sessions:   *)
(* the sessions that stay are the unexpired ones, unchanged and in the     *)
(* same order; no readyState and no clock value changes.                   *)

C13_SweepOnlyDeletes ==
    [][SweepStep
          => /\ sent' = <<>>
             /\ readyState' = readyState
             /\ now' = now
             /\ sessions' = SelectSeq(sessions, LAMBDA s : Kept(s))
             /\ \A i \in 1..Len(sessions) :
                   Gone(sessions[i]) => now - sessions[i].created > MaxAge
      ]_vars

\* a sweep has deleted the expired session of two open endpoints and left
\* the younger session: neither endpoint was sent anything
C13_Witness ==
    /\ last.kind = "sweep"
    /\ Len(last.removed) = 1
    /\ last.removed[1].sender = "ws1"
    /\ last.removed[1].receiver = "ws2"
    /\ readyState["ws1"] = "OPEN"
    /\ readyState["ws2"] = "OPEN"
    /\ Len(sessions) = 1
    /\ sent = <<>>

-----------------------------------------------------------------------------
(* C14: in every session of the registry that has a responder, the         *)
(* responder is an endpoint other than the initiator.                      *)

C14_ResponderIsNotInitiator ==
    \A i \in 1..Len(sessions) : sessions[i].receiver # sessions[i].sender

-----------------------------------------------------------------------------
(* C15: when the initiator of an open session (no responder bound) sends   *)
(* offer, answer or ice-candidate for its pin, the handler calls send on   *)
(* no socket, so no endpoint receives anything and the sender gets no      *)
(* reply, and the registry, the session included, is unchanged.            *)

C15_OpenSessionDrops ==
    [][(/\ Handles(SignalingTypes)
        /\ SessionsHas(ReqPin)
        /\ SessionsGet(ReqPin).sender = ReqWs
        /\ SessionsGet(ReqPin).receiver = Null)
          => /\ sent' = <<>>
             /\ sessions' = sessions
             /\ GetAfter(ReqPin).receiver = Null
      ]_vars

\* the open initiator of the open session 1234 sent an offer for it
C15_Witness ==
    /\ After("ws1", OfferText("1234"))
    /\ SessionsHas("1234")
    /\ readyState["ws1"] = "OPEN"
    /\ readyState["ws2"] = "OPEN"
    /\ SessionsGet("1234").sender = "ws1"
    /\ SessionsGet("1234").receiver = Null
    /\ sent = <<>>

-----------------------------------------------------------------------------
(* C16: the handler of a signaling message, of a message of an unknown     *)
(* type and of a text that does not decode leaves the registry and every   *)
(* readyState unchanged; for an unknown type and for a text that does not  *)
(* decode it also calls send on no socket.                                 *)

Registering == {"create-session", "join-session"}

C16_OthersChangeNothing ==
    [][(last'.kind = "message" /\ ~Handles(Registering))
          => /\ sessions' = sessions
             /\ readyState' = readyState
             /\ ~Handles(SignalingTypes) => sent' = <<>>
      ]_vars

\* a text that does not decode arrived from the responder of a paired
\* session: the session is there, both sockets are open, nothing was sent
C16_Witness ==
    /\ After("ws2", Garbage)
    /\ SessionsHas("1234")
    /\ SessionsGet("1234").sender = "ws1"
    /\ SessionsGet("1234").receiver = "ws2"
    /\ readyState["ws1"] = "OPEN"
    /\ readyState["ws2"] = "OPEN"
    /\ sent = <<>>

-----------------------------------------------------------------------------
(* C19: a signaling message for a pin whose session binds its sender       *)
(* neither as initiator nor as responder makes the handler call send on    *)
(* no socket: neither endpoint of the session gets it, the sender gets no  *)
(* reply, and the registry is unchanged.                                   *)

C19_OutsiderDropped ==
    [][(/\ Handles(SignalingTypes)
        /\ SessionsHas(ReqPin)
        /\ ~Binds(SessionsGet(ReqPin), ReqWs))
          => /\ sent' = <<>>
             /\ sessions' = sessions
      ]_vars

\* ws3 knows the pin of the session of ws1 and ws2 and sent an offer for it
C19_Witness ==
    /\ After("ws3", OfferText("1234"))
    /\ SessionsHas("1234")
    /\ SessionsGet("1234").sender = "ws1"
    /\ SessionsGet("1234").receiver = "ws2"
    /\ \A ws \in Endpoints : readyState[ws] = "OPEN"
    /\ sent = <<>>

-----------------------------------------------------------------------------
(* C20: the close handler of an endpoint removes at most one session, and  *)
(* only one that binds the endpoint; every session that does not bind it   *)
(* stays in the registry unchanged, and nothing is added.                  *)

CloseStep == last'.kind = "close"

-----------------------------------------------------------------------------
(* C17: while the clock advances and the sweep keeps running, a session    *)
(* created at time T leaves the registry: whatever its endpoints do, it    *)
(* is eventually not there any more. Stated for the creation times whose   *)
(* expiry the clock of the model can reach.                                *)

Expirable(T) == \E t \in TimePoints : t - T > MaxAge

CreatedAt(pin, T) == SessionsHas(pin) /\ SessionsGet(pin).created = T

C17_EverySessionRemoved ==
    \A pin \in Pins : \A T \in {t \in TimePoints : Expirable(t)} :
       []<>~CreatedAt(pin, T)

\* a sweep has removed the expired session of ws1 and ws2, both still open
C17_Witness ==
    /\ last.kind = "sweep"
    /\ \E k \in 1..Len(last.removed) :
          /\ last.removed[k].sender = "ws1"
          /\ last.removed[k].receiver = "ws2"
          /\ now - last.removed[k].created > MaxAge
    /\ readyState["ws1"] = "OPEN"
    /\ readyState["ws2"] = "OPEN"
    /\ ~SessionsHas("1234")

-----------------------------------------------------------------------------
(* C18: the forwarded messages a socket gets from one connection are in    *)
(* the order in which they arrived on that connection: if m1 arrived       *)
(* before m2 and both were forwarded, m1 was written to the peer before    *)
(* m2, whatever other connections, closes and sweeps did in between.       *)

====
